---- MODULE Spec2Model ----
(***************************************************************************)
(* Model of micro-app's host-facing unmount API (unmountApp and            *)
(* unmountAllApps over appInstanceMap) together with the parts of the      *)
(* application instance and of the <micro-app> container element that      *)
(* these functions call into.                                              *)
(*                                                                         *)
(* JavaScript is run-to-completion: while the executor of an unmountApp    *)
(* promise runs (exec.id # 0) no other task is scheduled.  The executor is *)
(* split at the source lines where the order of effects matters.           *)
(***************************************************************************)
EXTENDS Integers, Sequences, FiniteSets, TLC

\* ----------------------------------------------------------------- bounds
\* number of unmountApp promises that can be outstanding at the same time
MaxCalls == 2
\* number of calls of MicroApp.start that are followed
MaxStarts == 2

\* ------------------------------------------------------------- vocabulary
\* application names are strings, modelled as sequences of characters
Names == { <<"a">>, <<"b">> }
\* what the host may pass to unmountApp
RawNames == { <<"a">>, <<"A", "!">>, <<"b">>, <<"c">> }
CallIds == 1..MaxCalls

Absent == "<absent>"        \* hasAttribute(...) = false
Undef == "<undefined>"      \* a local that was declared but never assigned
Events == {"unmount", "afterhidden"}

\* the marker attributes a host may put on the container of n
AttrChoices(n) ==
  IF n = <<"a">>
  THEN [destroy : {Absent, "x"}, destory : {Absent, "y"}, keepAlive : {Absent, "true"}]
  ELSE [destroy : {Absent}, destory : {Absent}, keepAlive : {Absent}]
\* the names the host asks to prefetch
PrefetchNames == { <<"b">> }
NoAttrs == [destroy |-> Absent, destory |-> Absent, keepAlive |-> Absent]

VARIABLES
  appKeys,      \* appInstanceMap: its keys, in insertion order
  apps,         \* appInstanceMap: name -> application instance
  containers,   \* the host-owned container element of each name
  pending,      \* per container: teardowns whose completion is still to come
  calls,        \* the promises returned by unmountApp
  exec,         \* the unmountApp executor that is running, and its locals
  batch,        \* the promise chain of unmountAllApps
  micro         \* the MicroApp instance, window.customElements and the console

vars == <<appKeys, apps, containers, pending, calls, exec, batch, micro>>

\* ------------------------------------------------------------ small helpers
Range(s) == { s[i] : i \in 1..Len(s) }

RECURSIVE SeqFilterOut(_, _)
SeqFilterOut(s, x) ==
  IF s = <<>> THEN <<>>
  ELSE IF Head(s) = x THEN SeqFilterOut(Tail(s), x)
  ELSE <<Head(s)>> \o SeqFilterOut(Tail(s), x)

\* appInstanceMap.has(name)
IsRegistered(keys, n) == n \in Range(keys)

\* ----------------------------------------------------- name normalisation
Lower(ch) == CASE ch = "A" -> "a" [] ch = "B" -> "b" [] OTHER -> ch
IsNameChar(ch) == ch \in {"a", "b", "c", "A", "B", "-", "_"}

\* formatAppName: drops the characters that are not allowed in a name and
\* normalises the case
RECURSIVE formatAppName(_)
formatAppName(raw) ==
  IF raw = <<>> THEN <<>>
  ELSE IF IsNameChar(Head(raw)) THEN <<Lower(Head(raw))>> \o formatAppName(Tail(raw))
  ELSE formatAppName(Tail(raw))

\* ------------------------------------------------------------ MicroApp.start
\* tag names, as the pieces they are made of: "micro-app", "micro-app-one",
\* "micro-appx", "my-micro-app"
TagNames == { <<"micro-app">>, <<"micro-app", "-one">>, <<"micro-app", "x">>,
              <<"my-", "micro-app">> }

\* the options start() may be called with; absent members are undefined.
\* inline, disableScopecss, disableSandbox and ssr are copied the way
\* shadowDOM is, destory the way destroy is
NoOptions == [given |-> FALSE, tagName |-> <<>>, shadowDOM |-> Undef,
              destroy |-> Undef, preFetchApps |-> FALSE]
StartOptions ==
  {NoOptions} \cup
  [given : {TRUE}, tagName : TagNames \cup {<<>>}, shadowDOM : {Undef, "true"},
   destroy : {Undef, "true"}, preFetchApps : BOOLEAN]

\* the MicroApp instance after construction, in an environment that has
\* window.customElements or has not, with the elements defined so far
NewMicroApp(supported, defined) ==
  [supported |-> supported, defined |-> defined, tagName |-> <<"micro-app">>,
   shadowDOM |-> Undef, destroy |-> Undef, preFetched |-> FALSE,
   globalEnv |-> FALSE, starts |-> 0, report |-> "none",
   options |-> NoOptions]

\* /^micro-app(-\S+)?/.test(tagName): anchored at the start only
validTagName(t) == t # <<>> /\ Head(t) = "micro-app"

\* this.tagName after the tagName option has been looked at
tagNameAfter(m, o) ==
  IF o.tagName # <<>> /\ validTagName(o.tagName) THEN o.tagName ELSE m.tagName

\* variant: an element that is already defined does not stop start()
startReturns_redefining(m, o) ==
  IF ~m.supported THEN "error: not supported"
  ELSE IF o.tagName # <<>> /\ ~validTagName(o.tagName) THEN "error: invalid tagName"
  ELSE "none"

\* where start() returns: the report of the early return taken, "none" when
\* it runs to its end
startReturns(m, o) ==
  IF ~m.supported THEN "error: not supported"
  ELSE IF o.tagName # <<>> /\ ~validTagName(o.tagName) THEN "error: invalid tagName"
  ELSE IF tagNameAfter(m, o) \in m.defined THEN "warn: already defined"
  ELSE "none"

\* a call of MicroApp.start(options)
Start(o) ==
  /\ micro.starts < MaxStarts
  /\ LET r == startReturns(micro, o)
         called == [micro EXCEPT !.starts = @ + 1, !.report = r, !.options = o]
     IN micro' =
          IF r \in {"error: not supported", "error: invalid tagName"} THEN called
          ELSE IF r = "warn: already defined"
          THEN [called EXCEPT !.tagName = tagNameAfter(micro, o)]
          ELSE [called EXCEPT
                  !.tagName = tagNameAfter(micro, o),
                  !.globalEnv = TRUE,
                  !.shadowDOM = IF o.given THEN o.shadowDOM ELSE @,
                  !.destroy = IF o.given THEN o.destroy ELSE @,
                  !.preFetched = IF o.given /\ o.preFetchApps THEN TRUE ELSE @,
                  !.defined = @ \cup {tagNameAfter(micro, o)}]
  /\ UNCHANGED <<appKeys, apps, containers, pending, calls, exec, batch>>

\* ------------------------------------------------------------ initial state
NoApp == [state |-> "NONE", keepAliveState |-> "NONE", isPrefetch |-> FALSE,
          container |-> FALSE, sandBox |-> FALSE, bus |-> FALSE]

NoContainer == [exists |-> FALSE, parent |-> FALSE, destroy |-> Absent,
                destory |-> Absent, keepAlive |-> Absent, listeners |-> {}]

NoCall == [name |-> <<>>, destroy |-> FALSE, clear |-> FALSE, status |-> "none",
           path |-> "none", via |-> "none", resolves |-> 0, warned |-> FALSE,
           evt |-> FALSE, done |-> FALSE, by |-> "none", idx |-> 0,
           pre |-> NoAttrs, returned |-> FALSE]

Idle == [id |-> 0, pc |-> "idle", destroyAttrValue |-> Undef,
         destoryAttrValue |-> Undef, keepAliveAttrValue |-> Undef]

NoLast == [status |-> "none", path |-> "none", evt |-> FALSE]
NoBatch == [status |-> "idle", names |-> <<>>, idx |-> 0, destroy |-> FALSE,
            clear |-> FALSE, cur |-> 0, last |-> NoLast, mounts |-> FALSE]

\* the host mounts something: a running unmountAllApps is no longer alone
noteMount(b) == IF b.status = "running" THEN [b EXCEPT !.mounts = TRUE] ELSE b

\* the registry and the page before anything is mounted
InitRegistry ==
  /\ appKeys = <<>>
  /\ apps = [n \in Names |-> NoApp]
  /\ containers = [n \in Names |-> NoContainer]
  /\ pending = [n \in Names |-> <<>>]
  /\ calls = [c \in CallIds |-> NoCall]
  /\ exec = Idle
  /\ batch = NoBatch

Init ==
  /\ InitRegistry
  /\ micro = NewMicroApp(TRUE, {})


\* ------------------------------------------------------------ the promises
\* resolve(): settles a pending promise; a settled promise ignores it
resolveP(cs, c, how) ==
  IF cs[c].status = "pending"
  THEN [cs EXCEPT ![c].status = "resolved", ![c].via = how,
                  ![c].resolves = IF @ < 2 THEN @ + 1 ELSE @]
  ELSE [cs EXCEPT ![c].resolves = IF @ < 2 THEN @ + 1 ELSE @]

\* an exception thrown inside the executor of new Promise(...) rejects it
throwInExecutor(cs, c) ==
  IF cs[c].status = "pending"
  THEN [cs EXCEPT ![c].status = "rejected", ![c].via = "throw"]
  ELSE cs

Settled(c) == calls[c].status \in {"resolved", "rejected"}
FreeIds == { c \in CallIds : calls[c].status = "none" }
NextId == CHOOSE c \in FreeIds : \A d \in FreeIds : c <= d

\* a then-callback is ready to run: the host's continuation of a settled
\* unmountApp promise, or the next link of the unmountAllApps chain
BatchReady ==
  /\ batch.status = "running"
  /\ IF batch.cur = 0 THEN TRUE ELSE Settled(batch.cur)
MicrotaskReady ==
  \/ \E c \in CallIds : Settled(c) /\ ~calls[c].returned
  \/ BatchReady
  \/ batch.status \in {"resolved", "rejected"}

\* no script is running and no microtask is queued: a new task may start
Quiet == exec.id = 0 /\ ~MicrotaskReady

\* the record of a promise once its continuation has run: it is dropped,
\* unless listeners of the call are still on the container
Leaked == [NoCall EXCEPT !.status = "rejected", !.returned = TRUE]
afterReturn(cs, c) ==
  IF \E n \in Names : \E e \in Events : <<c, e>> \in containers[n].listeners
  THEN [cs EXCEPT ![c] = [Leaked EXCEPT !.status = cs[c].status]]
  ELSE [cs EXCEPT ![c] = NoCall]

\* ------------------------------------------- the listeners of unmountApp
\* variant: each handler takes off only the 'unmount' listener
handlerRemoves_onlyUnmount(c) == { <<c, "unmount">> }

\* what unmountHandler / afterhiddenHandler of call c take off the container
handlerRemoves(c) == { <<c, "unmount">>, <<c, "afterhidden">> }

\* variant: only the 'unmount' listener is attached
handlerAdds_onlyUnmount(c) == { <<c, "unmount">> }

\* what unmountApp puts on the container
handlerAdds(c) == { <<c, "unmount">>, <<c, "afterhidden">> }

\* the calls whose handler for ev is on the container when ev is dispatched
firedCalls(ls, ev) == { c \in CallIds : <<c, ev>> \in ls }

listenersAfterDispatch(ls, ev) ==
  ls \ UNION { handlerRemoves(c) : c \in firedCalls(ls, ev) }

RECURSIVE resolveAll(_, _)
resolveAll(cs, S) ==
  IF S = {} THEN cs
  ELSE LET c == CHOOSE x \in S : TRUE
       IN resolveAll(resolveP(cs, c, "handler"), S \ {c})

callsAfterDispatch(cs, ls, ev) == resolveAll(cs, firedCalls(ls, ev))

\* history: the container of n has emitted a lifecycle event since call c
\* began.  A record whose continuation has run is dropped once its last
\* listener has fired.
markEvt(cs, n) ==
  [c \in CallIds |->
     IF cs[c].returned THEN (IF cs[c].resolves > 0 THEN NoCall ELSE cs[c])
     ELSE IF cs[c].status # "none" /\ cs[c].name = n THEN [cs[c] EXCEPT !.evt = TRUE]
     ELSE cs[c]]

\* -------------------------------------------------- the application instance
\* app.actionsForCompletelyDestroy(): releases sandbox and bus
actionsForCompletelyDestroy(app) ==
  [app EXCEPT !.sandBox = FALSE, !.bus = FALSE]

\* app.unmount(destroy, cb): the state part
appUnmount(app, destroy) ==
  LET a == [app EXCEPT !.state = "UNMOUNT", !.keepAliveState = "NONE",
                       !.container = FALSE]
  IN IF destroy THEN actionsForCompletelyDestroy(a) ELSE a

\* appInstanceMap.delete(name)
deleteKey(keys, n) == SeqFilterOut(keys, n)

\* ------------------------------------------------- the container element
destroyMarked(c) == c.destroy # Absent \/ c.destory # Absent
keepAliveMarked(c) == c.keepAlive # Absent

\* disconnectedCallback: what the element does with its application when it
\* leaves the document, decided by the marker attributes it carries then
teardownKind(keys, as, c, n) ==
  IF ~IsRegistered(keys, n) \/ as[n].state = "UNMOUNT" \/ as[n].isPrefetch
     \/ as[n].keepAliveState = "KEEP_ALIVE_HIDDEN"
  THEN "none"
  ELSE IF destroyMarked(c) THEN "destroy"
  ELSE IF keepAliveMarked(c) THEN "hide"
  ELSE "unmount"

teardownEvent(kind) ==
  CASE kind = "hide" -> "afterhidden"
    [] kind \in {"destroy", "unmount"} -> "unmount"
    [] OTHER -> "none"

appAfterTeardown(app, kind) ==
  CASE kind = "destroy" -> appUnmount(app, TRUE)
    [] kind = "unmount" -> appUnmount(app, FALSE)
    [] kind = "hide" -> [app EXCEPT !.keepAliveState = "KEEP_ALIVE_HIDDEN"]
    [] OTHER -> app

\* parentNode.removeChild(container), with the element's reaction to it.  The
\* lifecycle event is dispatched either before removeChild returns (sync) or
\* after the application's own cleanup, in a later task.  cs0 is calls with
\* the caller's bookkeeping applied.
DetachContainer(n, sync, cs0) ==
  LET c == containers[n]
      kind == teardownKind(appKeys, apps, c, n)
      ev == teardownEvent(kind)
      now == sync /\ ev # "none"
  IN /\ containers' = [containers EXCEPT ![n] =
            [c EXCEPT !.parent = FALSE,
                      !.listeners = IF now THEN listenersAfterDispatch(@, ev) ELSE @]]
     /\ apps' = [apps EXCEPT ![n] = appAfterTeardown(@, kind)]
     /\ appKeys' = IF kind = "destroy" THEN deleteKey(appKeys, n) ELSE appKeys
     /\ pending' = IF ~sync /\ ev # "none"
                   THEN [pending EXCEPT ![n] = Append(@, [ev |-> ev, cb |-> 0])]
                   ELSE pending
     /\ calls' = IF now THEN markEvt(callsAfterDispatch(cs0, c.listeners, ev), n)
                 ELSE cs0


\* ------------------------------------------------------------------ the host
\* a mount request: the host creates the container element of n (not yet in
\* the document); an application not yet known is created for it
MountRequest(n, at) ==
  /\ Quiet
  /\ ~containers[n].exists
  /\ containers' = [containers EXCEPT ![n] =
        [exists |-> TRUE, parent |-> FALSE, destroy |-> at.destroy,
         destory |-> at.destory, keepAlive |-> at.keepAlive, listeners |-> {}]]
  /\ IF IsRegistered(appKeys, n)
     THEN UNCHANGED <<apps, appKeys>>
     ELSE /\ apps' = [apps EXCEPT ![n] = [NoApp EXCEPT !.state = "CREATED",
                                                       !.container = TRUE]]
          /\ appKeys' = Append(appKeys, n)
  /\ UNCHANGED <<pending, calls, exec>>
  /\ batch' = noteMount(batch)
  /\ UNCHANGED micro

\* a prefetch request: the application is created without a container
PreFetch(n) ==
  /\ Quiet
  /\ ~containers[n].exists
  /\ ~IsRegistered(appKeys, n)
  /\ apps' = [apps EXCEPT ![n] = [NoApp EXCEPT !.state = "LOADING",
                                               !.isPrefetch = TRUE, !.bus = TRUE]]
  /\ appKeys' = Append(appKeys, n)
  /\ UNCHANGED <<containers, pending, calls, exec, batch>>
  /\ UNCHANGED micro

\* first attach: CREATED (or prefetched) -> LOADING, the sandbox is created
Attach(n) ==
  /\ Quiet
  /\ containers[n].exists /\ ~containers[n].parent
  /\ IsRegistered(appKeys, n)
  /\ (apps[n].state = "CREATED" \/ apps[n].isPrefetch)
  /\ containers' = [containers EXCEPT ![n].parent = TRUE]
  /\ apps' = [apps EXCEPT ![n] = [@ EXCEPT !.state = "LOADING", !.isPrefetch = FALSE,
                                          !.container = TRUE, !.sandBox = TRUE,
                                          !.bus = TRUE]]
  /\ UNCHANGED <<appKeys, pending, calls, exec>>
  /\ batch' = noteMount(batch)
  /\ UNCHANGED micro

\* the application's code has run and rendered: LOADING -> MOUNTED
ScriptDone(n) ==
  /\ Quiet
  /\ IsRegistered(appKeys, n)
  /\ apps[n].state = "LOADING" /\ ~apps[n].isPrefetch
  /\ apps' = [apps EXCEPT ![n].state = "MOUNTED"]
  /\ UNCHANGED <<appKeys, containers, pending, calls, exec, batch>>
  /\ UNCHANGED micro

\* the host takes the container out of the document itself
HostDetach(n, sync) ==
  /\ Quiet
  /\ containers[n].parent
  /\ DetachContainer(n, sync, calls)
  /\ UNCHANGED <<exec, batch>>
  /\ UNCHANGED micro

\* the host puts the container back: a hidden application is shown again, an
\* unmounted one that was not destroyed is mounted again
Reattach(n) ==
  /\ Quiet
  /\ containers[n].exists /\ ~containers[n].parent
  /\ pending[n] = <<>>
  /\ IsRegistered(appKeys, n)
  /\ ~apps[n].isPrefetch
  /\ (apps[n].keepAliveState = "KEEP_ALIVE_HIDDEN" \/ apps[n].state = "UNMOUNT")
  /\ containers' = [containers EXCEPT ![n].parent = TRUE]
  /\ apps' = [apps EXCEPT ![n] =
        IF @.state = "UNMOUNT"
        THEN [@ EXCEPT !.state = IF apps[n].sandBox THEN "MOUNTED" ELSE "LOADING",
                       !.container = TRUE, !.sandBox = TRUE]
        ELSE [@ EXCEPT !.keepAliveState = "KEEP_ALIVE_SHOWN", !.container = TRUE]]
  /\ UNCHANGED <<appKeys, pending, calls, exec>>
  /\ batch' = noteMount(batch)
  /\ UNCHANGED micro

\* a teardown that was not finished inside removeChild / app.unmount finishes:
\* the container emits its event, then the callback given to app.unmount runs
Complete(n) ==
  /\ Quiet
  /\ pending[n] # <<>>
  /\ LET t == Head(pending[n])
         ls == containers[n].listeners
         cs1 == callsAfterDispatch(calls, ls, t.ev)
         cs2 == IF t.cb # 0 THEN resolveP(cs1, t.cb, "callback") ELSE cs1
     IN /\ containers' = [containers EXCEPT ![n].listeners =
                              listenersAfterDispatch(ls, t.ev)]
        /\ calls' = markEvt(cs2, n)
  /\ pending' = [pending EXCEPT ![n] = Tail(@)]
  /\ UNCHANGED <<appKeys, apps, exec, batch>>
  /\ UNCHANGED micro


\* ---------------------------------------------------------------- unmountApp
\* variant: only an application in MOUNTED counts as mounted and visible
unmountPath_onlyMounted(n) ==
  IF ~IsRegistered(appKeys, n) THEN "unknown"
  ELSE IF apps[n].state # "MOUNTED" \/ apps[n].isPrefetch THEN "inactive"
  ELSE IF apps[n].keepAliveState = "KEEP_ALIVE_HIDDEN" THEN "hidden"
  ELSE "visible"

\* the branch unmountApp takes for the (normalised) name n
unmountPath(n) ==
  IF ~IsRegistered(appKeys, n) THEN "unknown"
  ELSE IF apps[n].state = "UNMOUNT" \/ apps[n].isPrefetch THEN "inactive"
  ELSE IF apps[n].keepAliveState = "KEEP_ALIVE_HIDDEN" THEN "hidden"
  ELSE "visible"

\* app.unmount(destroy, resolve) on a hidden keep-alive application: the
\* state changes at once, the 'unmount' event and the callback follow either
\* before app.unmount returns (sync) or in a later task
appUnmountCall(n, destroy, id, sync, cs0) ==
  LET ls == containers[n].listeners
  IN /\ apps' = [apps EXCEPT ![n] = appUnmount(@, destroy)]
     /\ appKeys' = IF destroy THEN deleteKey(appKeys, n) ELSE appKeys
     /\ containers' = IF sync
                      THEN [containers EXCEPT ![n].listeners =
                                listenersAfterDispatch(ls, "unmount")]
                      ELSE containers
     /\ calls' = IF sync
                 THEN markEvt(resolveP(callsAfterDispatch(cs0, ls, "unmount"),
                                       id, "callback"), n)
                 ELSE cs0
     /\ pending' = IF sync THEN pending
                   ELSE [pending EXCEPT ![n] = Append(@, [ev |-> "unmount", cb |-> id])]

\* variant: the hidden branch never asks app.unmount to destroy
hiddenUnmountArg_never(d, c) == FALSE

\* variant: the hidden branch always asks app.unmount to destroy
hiddenUnmountArg_always(d, c) == TRUE

\* the argument unmountApp passes as destroy to app.unmount in the hidden branch
hiddenUnmountArg(d, c) == d

\* variant: the hidden branch calls app.unmount whatever the options
hiddenUnmounts_always(d, c) == TRUE

\* does the hidden branch call app.unmount at all
hiddenUnmounts(d, c) == d \/ c

\* variant: the inactive branch destroys whatever the options
inactiveDestroys_always(d) == TRUE

\* does the inactive branch call app.actionsForCompletelyDestroy
inactiveDestroys(d) == d

\* variant: the unknown-name branch resolves without a warning
warnAndResolve_silent(cs, id) ==
  resolveP([cs EXCEPT ![id].done = TRUE], id, "direct")

\* logWarn(`app ${appName} does not exist`); resolve()
warnAndResolve(cs, id) ==
  resolveP([cs EXCEPT ![id].warned = TRUE, ![id].done = TRUE], id, "direct")

\* variant: the branch of a mounted, visible application always destroys
branchAfterListen_destroys(d, c, cont) == "destroyMark"

\* variant: the keep-alive attribute is taken off whatever clearAliveState is
branchAfterListen_clears(d, c, cont) ==
  IF d THEN "destroyMark"
  ELSE IF cont.keepAlive # Absent THEN "clearMark"
  ELSE "remove"

\* where the executor goes after the listeners are attached
branchAfterListen(d, c, cont) ==
  IF d THEN "destroyMark"
  ELSE IF c /\ cont.keepAlive # Absent THEN "clearMark"
  ELSE "remove"

\* unmountApp(appName, options) up to the point where the branch is taken;
\* in the branch of a mounted, visible application, up to the two
\* addEventListener calls
unmountApp(base, id, raw, d, c, by, idx, sync) ==
  LET n == formatAppName(raw)
      path == unmountPath(n)
      rec == [NoCall EXCEPT !.name = n, !.destroy = d, !.clear = c,
                            !.status = "pending", !.path = path, !.by = by,
                            !.idx = idx,
                            !.pre = IF path = "visible"
                                    THEN [destroy |-> containers[n].destroy,
                                          destory |-> containers[n].destory,
                                          keepAlive |-> containers[n].keepAlive]
                                    ELSE NoAttrs]
      cs0 == [base EXCEPT ![id] = rec]
  IN CASE path = "unknown" ->
            /\ calls' = warnAndResolve(cs0, id)
            /\ UNCHANGED <<appKeys, apps, containers, pending, exec>>
       [] path = "inactive" ->
            /\ apps' = IF inactiveDestroys(d)
                       THEN [apps EXCEPT ![n] = actionsForCompletelyDestroy(@)]
                       ELSE apps
            /\ appKeys' = IF inactiveDestroys(d) THEN deleteKey(appKeys, n) ELSE appKeys
            /\ calls' = resolveP([cs0 EXCEPT ![id].done = TRUE], id, "direct")
            /\ UNCHANGED <<containers, pending, exec>>
       [] path = "hidden" ->
            IF hiddenUnmounts(d, c)
            THEN /\ appUnmountCall(n, hiddenUnmountArg(d, c), id, sync,
                                   [cs0 EXCEPT ![id].done = TRUE])
                 /\ UNCHANGED exec
            ELSE /\ calls' = resolveP([cs0 EXCEPT ![id].done = TRUE], id, "direct")
                 /\ UNCHANGED <<appKeys, apps, containers, pending, exec>>
       [] path = "visible" ->
            IF apps[n].container
            THEN /\ calls' = cs0
                 /\ containers' = [containers EXCEPT ![n].listeners =
                                       @ \cup handlerAdds(id)]
                 /\ exec' = [Idle EXCEPT !.id = id,
                                         !.pc = branchAfterListen(d, c, containers[n])]
                 /\ UNCHANGED <<appKeys, apps, pending>>
            ELSE /\ calls' = throwInExecutor(cs0, id)
                 /\ UNCHANGED <<appKeys, apps, containers, pending, exec>>

\* the host calls unmountApp
UnmountAppCall(raw, d, c, sync) ==
  /\ Quiet
  /\ FreeIds # {}
  /\ unmountApp(calls, NextId, raw, d, c, "host", 0, sync)
  /\ UNCHANGED batch
  /\ UNCHANGED micro

\* the name the running executor works on, and its options
RunName == calls[exec.id].name
RunDestroy == calls[exec.id].destroy
RunClear == calls[exec.id].clear

\* destroy: remember the markers, then setAttribute('destroy', 'true')
DestroyMark ==
  /\ exec.pc = "destroyMark"
  /\ exec' = [exec EXCEPT !.pc = "destroyRemove",
                          !.destroyAttrValue = IF containers[RunName].destroy # Absent
                                               THEN containers[RunName].destroy ELSE Undef,
                          !.destoryAttrValue = IF containers[RunName].destory # Absent
                                               THEN containers[RunName].destory ELSE Undef]
  /\ containers' = [containers EXCEPT ![RunName].destroy = "true"]
  /\ UNCHANGED <<appKeys, apps, pending, calls, batch>>
  /\ UNCHANGED micro

\* variant: resolve() is called right after removeChild
RemoveChild_resolving(next, sync) ==
  IF containers[RunName].parent
  THEN /\ DetachContainer(RunName, sync,
                          resolveP(IF next = "idle"
                                   THEN [calls EXCEPT ![exec.id].done = TRUE]
                                   ELSE calls, exec.id, "direct"))
       /\ exec' = IF next = "idle" THEN Idle ELSE [exec EXCEPT !.pc = next]
  ELSE /\ calls' = throwInExecutor(calls, exec.id)
       /\ exec' = Idle
       /\ UNCHANGED <<appKeys, apps, containers, pending>>

\* container.parentNode!.removeChild(container): a TypeError when the
\* container has no parent, which rejects the promise
RemoveChild(next, sync) ==
  IF containers[RunName].parent
  THEN /\ DetachContainer(RunName, sync,
                          IF next = "idle" THEN [calls EXCEPT ![exec.id].done = TRUE]
                          ELSE calls)
       /\ exec' = IF next = "idle" THEN Idle ELSE [exec EXCEPT !.pc = next]
  ELSE /\ calls' = throwInExecutor(calls, exec.id)
       /\ exec' = Idle
       /\ UNCHANGED <<appKeys, apps, containers, pending>>

DestroyRemove(sync) ==
  /\ exec.pc = "destroyRemove"
  /\ RemoveChild("destroyRestore", sync)
  /\ UNCHANGED batch
  /\ UNCHANGED micro

\* variant: removeAttribute('destroy') is left out
destroyAfterRestore_stale(saved) == IF saved # Undef THEN saved ELSE "true"

\* the value of the 'destroy' attribute after removeAttribute and the restore
destroyAfterRestore(saved) == IF saved # Undef THEN saved ELSE Absent

\* the value of the 'destory' attribute after the restore
destoryAfterRestore(cur, saved) == IF saved # Undef THEN saved ELSE cur

DestroyRestore ==
  /\ exec.pc = "destroyRestore"
  /\ containers' = [containers EXCEPT
        ![RunName].destroy = destroyAfterRestore(exec.destroyAttrValue),
        ![RunName].destory = destoryAfterRestore(@, exec.destoryAttrValue)]
  /\ calls' = [calls EXCEPT ![exec.id].done = TRUE]
  /\ exec' = Idle
  /\ UNCHANGED <<appKeys, apps, pending, batch>>
  /\ UNCHANGED micro

\* variant: the 'keep-alive' attribute is remembered but left on the container
ClearMark_keeping ==
  /\ exec.pc = "clearMark"
  /\ exec' = [exec EXCEPT !.pc = "clearRemove",
                          !.keepAliveAttrValue = containers[RunName].keepAlive]
  /\ UNCHANGED <<appKeys, apps, containers, pending, calls, batch>>
  /\ UNCHANGED micro

\* clearAliveState: remember 'keep-alive', then removeAttribute('keep-alive')
ClearMark ==
  /\ exec.pc = "clearMark"
  /\ exec' = [exec EXCEPT !.pc = "clearRemove",
                          !.keepAliveAttrValue = containers[RunName].keepAlive]
  /\ containers' = [containers EXCEPT ![RunName].keepAlive = Absent]
  /\ UNCHANGED <<appKeys, apps, pending, calls, batch>>
  /\ UNCHANGED micro

ClearRemove(sync) ==
  /\ exec.pc = "clearRemove"
  /\ RemoveChild("clearRestore", sync)
  /\ UNCHANGED batch
  /\ UNCHANGED micro

ClearRestore ==
  /\ exec.pc = "clearRestore"
  /\ containers' = [containers EXCEPT ![RunName].keepAlive = exec.keepAliveAttrValue]
  /\ calls' = [calls EXCEPT ![exec.id].done = TRUE]
  /\ exec' = Idle
  /\ UNCHANGED <<appKeys, apps, pending, batch>>
  /\ UNCHANGED micro

PlainRemove(sync) ==
  /\ exec.pc = "remove"
  /\ RemoveChild("idle", sync)
  /\ UNCHANGED batch
  /\ UNCHANGED micro

\* the host's continuation of a settled unmountApp promise runs
Return(c) ==
  /\ exec.id = 0
  /\ calls[c].by = "host"
  /\ Settled(c) /\ ~calls[c].returned
  /\ calls' = afterReturn(calls, c)
  /\ UNCHANGED <<appKeys, apps, containers, pending, exec, batch>>
  /\ UNCHANGED micro

\* ------------------------------------------------------------ unmountAllApps
\* Array.from(appInstanceMap.keys()).reduce(..., Promise.resolve())
UnmountAllApps(d, c) ==
  /\ Quiet
  /\ batch.status = "idle"
  /\ FreeIds # {}
  /\ batch' = [status |-> "running", names |-> appKeys, idx |-> 0,
               destroy |-> d, clear |-> c, cur |-> 0, last |-> NoLast,
               mounts |-> FALSE]
  /\ UNCHANGED <<appKeys, apps, containers, pending, calls, exec>>
  /\ UNCHANGED micro

\* variant: every link starts without waiting for the one before
chainReady_concurrent(p) == TRUE

\* may the link of the chain behind the promise p run
chainReady(p) == IF p = 0 THEN TRUE ELSE calls[p].status = "resolved"

\* what the chain knows of the promise it has just waited for
lastOf(p) ==
  IF p = 0 THEN NoLast
  ELSE [status |-> calls[p].status, path |-> calls[p].path, evt |-> calls[p].evt]

\* pre.then(() => unmountApp(next, options))
BatchNext(sync) ==
  /\ exec.id = 0
  /\ batch.status = "running"
  /\ batch.idx < Len(batch.names)
  /\ chainReady(batch.cur)
  /\ LET base == IF batch.cur = 0 THEN calls ELSE afterReturn(calls, batch.cur)
         free == { c \in CallIds : base[c].status = "none" }
     IN /\ free # {}
        /\ LET id == CHOOSE c \in free : \A x \in free : c <= x
           IN /\ unmountApp(base, id, batch.names[batch.idx + 1], batch.destroy,
                            batch.clear, "batch", batch.idx + 1, sync)
              /\ batch' = [batch EXCEPT !.idx = @ + 1, !.cur = id,
                                        !.last = lastOf(batch.cur)]
  /\ UNCHANGED micro

\* the promise unmountAllApps returned settles
BatchSettle ==
  /\ exec.id = 0
  /\ batch.status = "running"
  /\ IF chainReady(batch.cur)
     THEN /\ batch.idx = Len(batch.names)
          /\ batch' = [batch EXCEPT !.status = "resolved", !.cur = 0,
                                    !.last = lastOf(batch.cur)]
     ELSE /\ calls[batch.cur].status = "rejected"
          /\ batch' = [batch EXCEPT !.status = "rejected", !.cur = 0,
                                    !.last = lastOf(batch.cur)]
  /\ calls' = IF batch.cur = 0 THEN calls ELSE afterReturn(calls, batch.cur)
  /\ UNCHANGED <<appKeys, apps, containers, pending, exec>>
  /\ UNCHANGED micro

\* the host's continuation of the settled unmountAllApps promise runs
BatchReturn ==
  /\ exec.id = 0
  /\ batch.status \in {"resolved", "rejected"}
  /\ batch' = NoBatch
  /\ UNCHANGED <<appKeys, apps, containers, pending, calls, exec>>
  /\ UNCHANGED micro

\* -------------------------------------------------------------- the registry
\* what a caller may pass as excludeHiddenApp ("undefined": left out)
ExcludeArgs == {"true", "false", "undefined"}

\* variant: the prefetch test is left out
isActiveApp_prefetched(app, excludeHiddenApp) ==
  /\ "UNMOUNT" # app.state
  /\ (excludeHiddenApp # "true" \/ "KEEP_ALIVE_HIDDEN" # app.keepAliveState)

\* variant: hidden applications are left out whatever excludeHiddenApp is
isActiveApp_noHidden(app, excludeHiddenApp) ==
  /\ "UNMOUNT" # app.state
  /\ ~app.isPrefetch
  /\ "KEEP_ALIVE_HIDDEN" # app.keepAliveState

\* the test getActiveApps applies to every entry of appInstanceMap
isActiveApp(app, excludeHiddenApp) ==
  /\ "UNMOUNT" # app.state
  /\ ~app.isPrefetch
  /\ (excludeHiddenApp # "true" \/ "KEEP_ALIVE_HIDDEN" # app.keepAliveState)

\* variant: the names are collected in front of the ones found before
pushName_front(activeApps, appName) == <<appName>> \o activeApps

\* activeApps.push(appName)
pushName(activeApps, appName) == Append(activeApps, appName)

\* appInstanceMap.forEach: the entries from position i on, in insertion order
RECURSIVE forEachApp(_, _, _, _)
forEachApp(keys, i, excludeHiddenApp, activeApps) ==
  IF i > Len(keys) THEN activeApps
  ELSE forEachApp(keys, i + 1, excludeHiddenApp,
                  IF isActiveApp(apps[keys[i]], excludeHiddenApp)
                  THEN pushName(activeApps, keys[i])
                  ELSE activeApps)

getActiveApps(excludeHiddenApp) == forEachApp(appKeys, 1, excludeHiddenApp, <<>>)

\* variant: a name is listed once for every lookup
getAllApps_twice == appKeys \o appKeys

\* Array.from(appInstanceMap.keys())
getAllApps == appKeys

\* ------------------------------------------------------------ specification
Next ==
  \/ \E n \in Names : \E at \in AttrChoices(n) : MountRequest(n, at)
  \/ \E n \in PrefetchNames : PreFetch(n)
  \/ \E n \in Names : Attach(n)
  \/ \E n \in Names : ScriptDone(n)
  \/ \E n \in Names, sync \in BOOLEAN : HostDetach(n, sync)
  \/ \E n \in Names : Reattach(n)
  \/ \E n \in Names : Complete(n)
  \/ \E raw \in RawNames, d \in BOOLEAN, c \in BOOLEAN, sync \in BOOLEAN :
        UnmountAppCall(raw, d, c, sync)
  \/ DestroyMark
  \/ \E sync \in BOOLEAN : DestroyRemove(sync)
  \/ DestroyRestore
  \/ ClearMark
  \/ \E sync \in BOOLEAN : ClearRemove(sync)
  \/ ClearRestore
  \/ \E sync \in BOOLEAN : PlainRemove(sync)
  \/ \E c \in CallIds : Return(c)
  \/ \E d \in BOOLEAN, c \in BOOLEAN : UnmountAllApps(d, c)
  \/ \E sync \in BOOLEAN : BatchNext(sync)
  \/ BatchSettle
  \/ BatchReturn

Spec == Init /\ [][Next]_vars

\* the same steps, with the scheduling the platform guarantees: the executor
\* and the promise continuations run to their end, and a teardown that a
\* container has begun is finished at some point
ExecutorStep ==
  \/ DestroyMark
  \/ \E sync \in BOOLEAN : DestroyRemove(sync)
  \/ DestroyRestore
  \/ ClearMark
  \/ \E sync \in BOOLEAN : ClearRemove(sync)
  \/ ClearRestore
  \/ \E sync \in BOOLEAN : PlainRemove(sync)

ContinuationStep ==
  \/ \E c \in CallIds : Return(c)
  \/ \E sync \in BOOLEAN : BatchNext(sync)
  \/ BatchSettle
  \/ BatchReturn

FairSpec ==
  /\ Spec
  /\ WF_vars(ExecutorStep)
  /\ WF_vars(ContinuationStep)
  /\ \A n \in Names : SF_vars(Complete(n))

\* start() called in an environment that is supported or not, where the
\* element micro-app is defined already or not
InitStart ==
  /\ InitRegistry
  /\ micro \in { NewMicroApp(s, d) : s \in BOOLEAN, d \in {{}, {<<"micro-app">>}} }

NextStart == \E o \in StartOptions : Start(o)

SpecStart == InitStart /\ [][NextStart]_vars


\* ------------------------------------------------------------------- claims
OwnListeners(c) == { <<c, "unmount">>, <<c, "afterhidden">> }
ListenersOf(c) == UNION { containers[n].listeners \cap OwnListeners(c) : n \in Names }
BeforeRemovePcs == {"destroyMark", "destroyRemove", "clearMark", "clearRemove", "remove"}

\* the step in which the call c is made
Starts(c) == calls[c].status = "none" /\ calls'[c].status # "none"

\* C1: the promise of an unmountApp call that took the branch of a mounted,
\* visible application is resolved only after the application's container has
\* emitted 'unmount' or 'afterhidden', whatever destroy and clearAliveState are
C1_ResolvedOnlyAfterEvent ==
  \A c \in CallIds :
    (calls[c].path = "visible" /\ calls[c].status = "resolved") => calls[c].evt

C1_Witness ==
  \E c \in CallIds :
    /\ calls[c].path = "visible" /\ calls[c].status = "resolved"
    /\ calls[c].evt /\ calls[c].done /\ calls[c].via = "handler"

\* C2: unmountAllApps starts the unmountApp of the next name only when the
\* promise of the one before has resolved (for a mounted, visible application:
\* after its container emitted its event); never two of its calls are
\* outstanding, and the call in progress is the one for names[idx]
C2_BatchSequential ==
  /\ (batch.status = "running" /\ batch.idx >= 2) =>
        /\ batch.last.status = "resolved"
        /\ (batch.last.path = "visible" => batch.last.evt)
  /\ \A c \in CallIds :
        (calls[c].by = "batch" /\ ~calls[c].returned) =>
           /\ batch.status = "running" /\ c = batch.cur
           /\ calls[c].idx = batch.idx
           /\ calls[c].name = batch.names[batch.idx]

C2_Witness ==
  /\ batch.status = "running" /\ batch.idx = 2
  /\ batch.last.path = "visible" /\ batch.last.evt
  /\ exec.id = batch.cur /\ exec.pc \in BeforeRemovePcs

\* C3 (as claimed): no promise of unmountApp and no promise of unmountAllApps
\* is ever rejected
C3_NeverRejected ==
  /\ \A c \in CallIds : calls[c].status # "rejected"
  /\ batch.status # "rejected"

\* C4: when unmountApp with destroy: true has run to its end on a container
\* that was in the document, 'destroy' and 'destory' are present exactly if
\* they were before the call, with the values they had
C4_MarkersRestored ==
  \A c \in CallIds :
    (calls[c].path = "visible" /\ calls[c].destroy /\ calls[c].done) =>
       /\ containers[calls[c].name].destroy = calls[c].pre.destroy
       /\ containers[calls[c].name].destory = calls[c].pre.destory

C4_Witness ==
  \E c \in CallIds :
    /\ calls[c].path = "visible" /\ calls[c].destroy /\ calls[c].done
    /\ calls[c].pre.destroy = Absent /\ calls[c].pre.destory = "y"
    /\ containers[calls[c].name].destroy = Absent
    /\ ~containers[calls[c].name].parent

\* C5: in the branch of a mounted, visible application both listeners are on
\* the container before it is removed; a resolved call has had resolve()
\* invoked once and has no listener left on any container
C5_ListenersPairedAndCleaned ==
  /\ (exec.id # 0 /\ exec.pc \in BeforeRemovePcs) =>
        OwnListeners(exec.id) \subseteq containers[RunName].listeners
  /\ \A c \in CallIds :
        /\ calls[c].resolves <= 1
        /\ (calls[c].path = "visible" /\ calls[c].status = "resolved") =>
              /\ calls[c].resolves = 1
              /\ ListenersOf(c) = {}

C5_Witness ==
  \E c \in CallIds :
    /\ calls[c].path = "visible" /\ calls[c].status = "resolved"
    /\ calls[c].via = "handler" /\ calls[c].resolves = 1
    /\ ListenersOf(c) = {}
    /\ apps[calls[c].name].keepAliveState = "KEEP_ALIVE_HIDDEN"

\* C6: unmountApp with destroy: true on a hidden keep-alive application
\* releases sandbox and bus and removes the application from the registry,
\* for both values of clearAliveState, and its promise is resolved by the
\* callback given to app.unmount only
C6_HiddenDestroy ==
  \A c \in CallIds :
    (calls[c].path = "hidden" /\ calls[c].destroy) =>
       /\ ~IsRegistered(appKeys, calls[c].name)
       /\ apps[calls[c].name].state = "UNMOUNT"
       /\ ~apps[calls[c].name].sandBox /\ ~apps[calls[c].name].bus
       /\ ~apps[calls[c].name].container
       /\ ListenersOf(c) = {}
       /\ (calls[c].status = "resolved" => calls[c].via = "callback")

C6_Witness ==
  \E c \in CallIds :
    /\ calls[c].path = "hidden" /\ calls[c].destroy /\ calls[c].clear
    /\ calls[c].status = "resolved" /\ calls[c].via = "callback"
    /\ ~IsRegistered(appKeys, calls[c].name)

\* C7: unmountApp with clearAliveState: true and no destroy on a hidden
\* keep-alive application: the container is released and out of the document,
\* the keep-alive state is cleared, the registry entry and the sandbox stay
C7_HiddenClear ==
  [][\A c \in CallIds :
       (Starts(c) /\ calls'[c].path = "hidden"
          /\ ~calls'[c].destroy /\ calls'[c].clear) =>
         /\ IsRegistered(appKeys', calls'[c].name)
         /\ appKeys' = appKeys
         /\ apps'[calls'[c].name].keepAliveState = "NONE"
         /\ apps'[calls'[c].name].state = "UNMOUNT"
         /\ ~apps'[calls'[c].name].container
         /\ ~containers'[calls'[c].name].parent
         /\ apps'[calls'[c].name].sandBox /\ apps'[calls'[c].name].bus]_vars

C7_Witness ==
  \E c \in CallIds :
    /\ calls[c].path = "hidden" /\ ~calls[c].destroy /\ calls[c].clear
    /\ calls[c].status = "resolved"
    /\ IsRegistered(appKeys, calls[c].name)
    /\ apps[calls[c].name].sandBox

\* C8: unmountApp with neither option on a hidden keep-alive application
\* resolves at once and changes no application, no container, no listener
\* and no registry entry
C8_HiddenNoop ==
  [][\A c \in CallIds :
       (Starts(c) /\ calls'[c].path = "hidden"
          /\ ~calls'[c].destroy /\ ~calls'[c].clear) =>
         /\ calls'[c].status = "resolved" /\ calls'[c].via = "direct"
         /\ UNCHANGED <<appKeys, apps, containers, pending, exec>>]_vars

C8_Witness ==
  \E c \in CallIds :
    /\ calls[c].path = "hidden" /\ ~calls[c].destroy /\ ~calls[c].clear
    /\ calls[c].status = "resolved"
    /\ apps[calls[c].name].keepAliveState = "KEEP_ALIVE_HIDDEN"
    /\ IsRegistered(appKeys, calls[c].name)

\* C9: unmountApp on a registered application that is in UNMOUNT or is a
\* prefetch resolves at once, attaches no listener and leaves every container
\* alone, whatever the keep-alive state; with destroy it releases sandbox and
\* bus and deletes the registry entry, without destroy it changes nothing
C9_Inactive ==
  [][\A c \in CallIds :
       (Starts(c) /\ IsRegistered(appKeys, calls'[c].name)
          /\ (apps[calls'[c].name].state = "UNMOUNT" \/ apps[calls'[c].name].isPrefetch)) =>
         /\ calls'[c].status = "resolved" /\ calls'[c].via = "direct"
         /\ UNCHANGED <<containers, pending, exec>>
         /\ IF calls'[c].destroy
            THEN /\ appKeys' = deleteKey(appKeys, calls'[c].name)
                 /\ ~apps'[calls'[c].name].sandBox /\ ~apps'[calls'[c].name].bus
                 /\ \A n \in Names \ {calls'[c].name} : apps'[n] = apps[n]
            ELSE UNCHANGED <<appKeys, apps>>]_vars

C9_Witness ==
  \E c \in CallIds :
    /\ calls[c].path = "inactive" /\ ~calls[c].destroy
    /\ calls[c].status = "resolved"
    /\ apps[calls[c].name].isPrefetch
    /\ IsRegistered(appKeys, calls[c].name)

\* C10: unmountApp with a name that, once normalised, is not in the registry
\* resolves at once with a warning and changes no application, no container
\* and no registry entry
C10_UnknownName ==
  [][\A c \in CallIds :
       (Starts(c) /\ ~IsRegistered(appKeys, calls'[c].name)) =>
         /\ calls'[c].status = "resolved" /\ calls'[c].warned
         /\ UNCHANGED <<appKeys, apps, containers, pending, exec>>]_vars

C10_Witness ==
  \E c \in CallIds :
    /\ calls[c].path = "unknown" /\ calls[c].status = "resolved"
    /\ calls[c].warned /\ calls[c].name = <<"c">>
    /\ appKeys # <<>>

\* is the sequence s made of elements of t, in the order they have in t
RECURSIVE IsSubsequence(_, _)
IsSubsequence(s, t) ==
  IF s = <<>> THEN TRUE
  ELSE IF t = <<>> THEN FALSE
  ELSE IF Head(s) = Head(t) THEN IsSubsequence(Tail(s), Tail(t))
  ELSE IsSubsequence(s, Tail(t))

NoDuplicates(s) == \A i, j \in 1..Len(s) : s[i] = s[j] => i = j

\* C11: getActiveApps(excludeHiddenApp) returns, each once, exactly the
\* registered names whose application is not in UNMOUNT and is not a prefetch
\* and, when excludeHiddenApp is true, is not KEEP_ALIVE_HIDDEN; with false or
\* no argument the hidden applications are returned too. The query is a
\* function of the registry: evaluating it is no step of the program
C11_ActiveApps ==
  \A x \in ExcludeArgs :
    /\ NoDuplicates(getActiveApps(x))
    /\ \A n \in Names :
         n \in Range(getActiveApps(x)) <=>
           /\ IsRegistered(appKeys, n)
           /\ apps[n].state # "UNMOUNT"
           /\ ~apps[n].isPrefetch
           /\ (x = "true" => apps[n].keepAliveState # "KEEP_ALIVE_HIDDEN")

C11_Witness ==
  /\ apps[<<"a">>].keepAliveState = "KEEP_ALIVE_HIDDEN"
  /\ apps[<<"b">>].isPrefetch
  /\ getAllApps = << <<"b">>, <<"a">> >>
  /\ getActiveApps("true") = <<>>
  /\ getActiveApps("false") = << <<"a">> >>
  /\ getActiveApps("undefined") = << <<"a">> >>

\* the step in which the call c is made (the record of an earlier call of
\* unmountAllApps may be taken over by the next one)
Begins(c) ==
  /\ calls'[c].status # "none"
  /\ (calls[c].status = "none" \/ calls[c].idx # calls'[c].idx)

\* a step of unmountApp made for a call without destroy: the step in which the
\* call is made or a step of its executor
StepWithoutDestroy(c) ==
  \/ Begins(c) /\ ~calls'[c].destroy
  \/ exec.id = c /\ ~calls[c].destroy

\* C12 (as claimed): no step of an unmountApp call made without destroy, by
\* the host or by unmountAllApps, takes a name out of the registry
C12_RemovedOnlyByDestroyOption ==
  [][\A c \in CallIds :
       StepWithoutDestroy(c) =>
         \A n \in Names : IsRegistered(appKeys, n) => n \in Range(getAllApps')]_vars

\* C12 (amended): no step of an unmountApp call made without destroy takes a
\* name out of the registry, unless the container it removes carried a
\* 'destroy' or 'destory' attribute of its own when the call was made
C12_RemovedOnlyByDestroy ==
  [][\A c \in CallIds :
       (/\ StepWithoutDestroy(c)
        /\ ~(exec.id = c /\ destroyMarked(calls[c].pre))) =>
         \A n \in Names : IsRegistered(appKeys, n) => n \in Range(getAllApps')]_vars

C12_Witness ==
  \E c \in CallIds :
    /\ calls[c].path = "visible" /\ ~calls[c].destroy /\ calls[c].clear
    /\ calls[c].pre.keepAlive = "true"
    /\ calls[c].pre.destroy = Absent /\ calls[c].pre.destory = Absent
    /\ calls[c].status = "resolved"
    /\ calls[c].name \in Range(getAllApps)
    /\ apps[calls[c].name].state = "UNMOUNT"

\* the step in which the executor of the call c takes the container of a
\* mounted, visible application out of the document
Removes(c) ==
  /\ exec.id = c
  /\ calls[c].path = "visible"
  /\ apps[calls[c].name].state = "MOUNTED"
  /\ containers[calls[c].name].parent
  /\ ~containers'[calls[c].name].parent

\* what C13 says of the application and the container once the container of
\* the call c is out of the document
HiddenAfter(c) ==
  /\ apps'[calls[c].name].keepAliveState = "KEEP_ALIVE_HIDDEN"
  /\ apps'[calls[c].name].state = "MOUNTED"
  /\ apps'[calls[c].name].sandBox
  /\ IsRegistered(appKeys', calls[c].name)
  /\ containers'[calls[c].name].keepAlive = calls[c].pre.keepAlive
  /\ calls'[c].status = "resolved" => calls'[c].via = "handler"
  /\ calls'[c].status = "pending" =>
        /\ <<c, "afterhidden">> \in containers'[calls[c].name].listeners
        /\ pending'[calls[c].name] # <<>>
        /\ pending'[calls[c].name][Len(pending'[calls[c].name])].ev = "afterhidden"

StartCalled == micro'.starts # micro.starts
StartAborted ==
  /\ micro'.defined = micro.defined
  /\ micro'.globalEnv = micro.globalEnv
  /\ micro'.shadowDOM = micro.shadowDOM /\ micro'.destroy = micro.destroy
  /\ micro'.preFetched = micro.preFetched

\* the step is a call of start() that ran to its end
StartCompleted ==
  /\ micro'.tagName \in micro'.defined
  /\ micro'.defined # micro.defined
  /\ micro'.globalEnv
  /\ micro'.options.given =>
        /\ micro'.shadowDOM = micro'.options.shadowDOM
        /\ micro'.destroy = micro'.options.destroy
        /\ micro'.options.preFetchApps => micro'.preFetched

\* C15 (as claimed): an invalid tag name and an element that is already
\* defined are reported on the log and stop nothing: start() gives up only
\* where the environment is not supported
C15_AbortsOnlyUnsupported ==
  [][StartCalled =>
       /\ micro'.report # "none" => micro'.report \in
             {"error: not supported", "error: invalid tagName", "warn: already defined"}
       /\ StartAborted => ~micro.supported]_vars

\* C15 (amended): start() never throws; it gives up, with a report on the
\* log, exactly when the environment is not supported (error), the tagName
\* option is not a valid tag name (error) or the element is already defined
\* (warning); otherwise it copies the options, schedules the prefetch and
\* defines the element
C15_AbortsOnReportedError ==
  [][StartCalled =>
       /\ StartAborted <=> micro'.report # "none"
       /\ ~StartAborted <=> StartCompleted
       /\ micro'.report = "error: not supported" <=> ~micro.supported
       /\ micro'.report = "error: invalid tagName" <=>
             /\ micro.supported
             /\ micro'.options.tagName # <<>>
             /\ ~validTagName(micro'.options.tagName)
       /\ micro'.report = "warn: already defined" <=>
             /\ micro.supported
             /\ micro'.tagName \in micro.defined
             /\ micro'.options.tagName # <<>> => validTagName(micro'.options.tagName)]_vars

C15_Witness ==
  /\ micro.supported /\ micro.starts = 2
  /\ micro.report = "error: invalid tagName"
  /\ micro.options.tagName = <<"my-", "micro-app">>
  /\ micro.options.shadowDOM = "true" /\ micro.shadowDOM = Undef
  /\ micro.options.preFetchApps /\ ~micro.preFetched
  /\ micro.defined = {<<"micro-app">>}

\* C16: unmountApp with clearAliveState and without destroy on a mounted,
\* visible application: a container that has the 'keep-alive' attribute is
\* removed while the attribute is off, so the application is unmounted and not
\* hidden, and once the call has run to its end the attribute is back with the
\* value it had; a container without the attribute is just removed and gets
\* no attribute
C16_ClearAliveState ==
  /\ (exec.id # 0 /\ exec.pc = "clearRemove") =>
        /\ ~RunDestroy /\ RunClear
        /\ calls[exec.id].pre.keepAlive # Absent
        /\ exec.keepAliveAttrValue = calls[exec.id].pre.keepAlive
        /\ containers[RunName].keepAlive = Absent
  /\ (exec.id # 0 /\ exec.pc = "remove" /\ RunClear) =>
        /\ calls[exec.id].pre.keepAlive = Absent
        /\ containers[RunName].keepAlive = Absent
  /\ \A c \in CallIds :
        (calls[c].path = "visible" /\ calls[c].clear /\ ~calls[c].destroy
           /\ calls[c].done) =>
           /\ containers[calls[c].name].keepAlive = calls[c].pre.keepAlive
           /\ ~containers[calls[c].name].parent
           /\ apps[calls[c].name].keepAliveState # "KEEP_ALIVE_HIDDEN"
           /\ apps[calls[c].name].state = "UNMOUNT"

C16_Witness ==
  \E c \in CallIds :
    /\ calls[c].path = "visible" /\ calls[c].clear /\ ~calls[c].destroy
    /\ calls[c].done /\ calls[c].status = "resolved"
    /\ calls[c].pre.keepAlive = "true"
    /\ containers[calls[c].name].keepAlive = "true"
    /\ ~containers[calls[c].name].parent
    /\ apps[calls[c].name].state = "UNMOUNT"
    /\ IsRegistered(appKeys, calls[c].name)

\* the call c is outstanding: made, and its continuation has not run yet
Outstanding(c) == calls[c].status # "none" /\ ~calls[c].returned

\* the call c has taken the container of a mounted, visible application out
\* of the document and waits for the event of that teardown
AwaitsEvent(c) ==
  /\ Outstanding(c)
  /\ calls[c].path = "visible" /\ calls[c].done
  /\ calls[c].status = "pending"

\* C17, safety: while an unmountApp call that removed the container of a
\* mounted, visible application is outstanding, a second call for the same
\* name is not rejected, takes no branch that removes the container (it has
\* been detached once, by the first call), attaches no listener and, if it
\* waits, waits for a callback that is on its way; the first call, while it
\* waits, has its listeners on the container and an event on its way, and
\* once resolved has no listener left
C17_SecondCallSafe ==
  \A c1 \in CallIds :
    (Outstanding(c1) /\ calls[c1].path = "visible" /\ calls[c1].done) =>
      /\ calls[c1].status # "rejected"
      /\ calls[c1].status = "resolved" => ListenersOf(c1) = {}
      /\ calls[c1].status = "pending" =>
            /\ OwnListeners(c1) \subseteq containers[calls[c1].name].listeners
            /\ pending[calls[c1].name] # <<>>
      /\ \A c2 \in CallIds \ {c1} :
           (Outstanding(c2) /\ calls[c2].name = calls[c1].name) =>
              /\ calls[c2].status # "rejected"
              /\ calls[c2].path \in {"inactive", "hidden", "unknown"}
              /\ ListenersOf(c2) = {}
              /\ calls[c2].status = "pending" =>
                    \E i \in 1..Len(pending[calls[c2].name]) :
                       pending[calls[c2].name][i].cb = c2

\* C17, progress: an unmountApp call that waits for the event of its teardown,
\* and a call on a hidden application that waits for the callback of
\* app.unmount, does not wait for ever; it is resolved
C17_BothResolve ==
  \A c \in CallIds :
    (AwaitsEvent(c) \/ (calls[c].path = "hidden" /\ calls[c].status = "pending"))
      ~> (calls[c].status # "pending")

\* C17: two unmountApp calls for the same mounted, visible application, the
\* second made before the event of the first has fired: both promises are
\* resolved, neither is rejected or waits for ever, the container is taken
\* out of the document once and no listener of either call is left
C17_ConcurrentCalls == []C17_SecondCallSafe /\ C17_BothResolve

C17_Witness ==
  \E c1 \in CallIds : \E c2 \in CallIds \ {c1} :
    /\ AwaitsEvent(c1)
    /\ Outstanding(c2) /\ calls[c2].name = calls[c1].name
    /\ calls[c2].path = "hidden" /\ calls[c2].status = "pending"
    /\ ~containers[calls[c1].name].parent

\* C18 (as claimed): the promise of unmountAllApps is resolved at some point,
\* given that every teardown a container has begun is completed
C18_BatchResolves ==
  (batch.status = "running") ~> (batch.status = "resolved")

\* C19: when the promise of unmountAllApps is resolved and the host has
\* mounted nothing since the call, getActiveApps(true) is empty: every
\* application is unmounted, hidden, a prefetch, or no longer registered,
\* whatever the options and whatever the applications were before
C19_NothingActiveAfterBatch ==
  (batch.status = "resolved" /\ ~batch.mounts) => getActiveApps("true") = <<>>

C19_Witness ==
  /\ batch.status = "resolved" /\ ~batch.mounts
  /\ ~batch.destroy /\ ~batch.clear
  /\ batch.names = << <<"b">>, <<"a">> >>
  /\ batch.last.path = "visible" /\ batch.last.evt
  /\ apps[<<"a">>].keepAliveState = "KEEP_ALIVE_HIDDEN"
  /\ apps[<<"b">>].state = "UNMOUNT"
  /\ getActiveApps("false") = << <<"a">> >>
  /\ getActiveApps("true") = <<>>

\* C20: getActiveApps(true) is a subsequence of getActiveApps(false) (the
\* same as getActiveApps()), which is a subsequence of getAllApps, all in the
\* order of insertion into the registry; getAllApps lists every registered
\* name, those of unmounted, prefetched and hidden applications included
C20_QueriesNested ==
  /\ IsSubsequence(getActiveApps("true"), getActiveApps("false"))
  /\ IsSubsequence(getActiveApps("false"), getAllApps)
  /\ getActiveApps("undefined") = getActiveApps("false")
  /\ \A n \in Names :
       IsRegistered(appKeys, n) =>
         Cardinality({ i \in 1..Len(getAllApps) : getAllApps[i] = n }) = 1

C20_Witness ==
  /\ getAllApps = << <<"a">>, <<"b">> >>
  /\ getActiveApps("false") = << <<"a">>, <<"b">> >>
  /\ getActiveApps("true") = << <<"b">> >>
  /\ apps[<<"a">>].keepAliveState = "KEEP_ALIVE_HIDDEN"
  /\ apps[<<"b">>].state = "LOADING"

====
